---- MODULE Spec2Model ----
(***************************************************************************)
(* Request correlation of faas-profiler-core: the identifier codec, the    *)
(* record builder (make_record), the DynamoDB backed request table         *)
(* (AWSRequestTable) and the no-op table (NoopRequestTable) of             *)
(* src/faas_profiler_core/requests.py, and the earlier table of outbound   *)
(* requests (AWSOutboundRequestTable) of src/faas_profiler_core/outbound.py;*)
(* TracingContext and Trace of src/faas_profiler_core/models.py; the       *)
(* record storages of src/faas_profiler_core/storage.py.                   *)
(*                                                                         *)
(* Python values are tagged records: [t |-> "str", v |-> <<chars>>],       *)
(* [t |-> "int", v |-> n], [t |-> "datetime", v |-> microseconds],         *)
(* [t |-> "uuid", v |-> name] and None.  A Python str is a sequence of     *)
(* one-character strings; a dict is the sequence of its <<key, value>>     *)
(* items in insertion order, its keys pairwise different.                  *)
(***************************************************************************)
EXTENDS Integers, Sequences, FiniteSets, TLC

\* table: the items of the DynamoDB table; call: the last call and its
\* arguments; result: what it returned or raised; backend: the requests it
\* sent to DynamoDB, in order.
VARIABLES table, call, result, backend

\* heap: the TraceRecord objects, by reference; traces: the Trace objects.
VARIABLES heap, traces

\* procs: the invocations that use the table at the same time, each with
\* the position it has reached in its call.
VARIABLES procs

\* bucket: the blobs of the record bucket; storage: the RecordStorage
\* instance; moving: the mark_record_as_resolved call in progress.
VARIABLES bucket, storage, moving

request_vars == <<table, call, result, backend>>
trace_vars == <<heap, traces>>
process_vars == <<procs>>
storage_vars == <<bucket, storage, moving>>

vars == <<request_vars, trace_vars, process_vars, storage_vars>>

\* The parts of the state a specification leaves out hold nothing.
NoTraces == heap = <<>> /\ traces = <<>>
NoProcesses == procs = <<>>
NoStorage == bucket = <<>> /\ storage = <<>> /\ moving = <<>>

(***************************************************************************)
(* Bounds of the model.                                                    *)
(***************************************************************************)
\* Longest identifier dict handed to make_record.
MaxEntries == 2
\* Most items the table is let to hold.
MaxItems == 2

(***************************************************************************)
(* Python values.                                                          *)
(***************************************************************************)
None == [t |-> "none", v |-> "None"]
PyStr(s) == [t |-> "str", v |-> s]
PyInt(n) == [t |-> "int", v |-> n]
PyTime(us) == [t |-> "datetime", v |-> us]
PyUUID(u) == [t |-> "uuid", v |-> u]

\* The characters the model uses, in code point order.
Alphabet ==
    << "#", ".", "0", "1", "2", "3", "4", "5", "6", "7", "8", "9",
       "B", "D", "I", "N", "O", "T", "U", "_",
       "a", "b", "c", "d", "e", "f", "i", "l", "o", "r", "u", "v", "x" >>

Chars == {Alphabet[i] : i \in 1..Len(Alphabet)}

\* The place of every character in that order.
OrdTable == [c \in Chars |-> CHOOSE i \in 1..Len(Alphabet) : Alphabet[i] = c]

ord(c) == OrdTable[c]

\* Python's (and DynamoDB's) order of strings: by code points, a proper
\* prefix first.
RECURSIVE StrLess(_, _)
StrLess(a, b) ==
    IF b = <<>> THEN FALSE
    ELSE IF a = <<>> THEN TRUE
    ELSE IF Head(a) # Head(b) THEN ord(Head(a)) < ord(Head(b))
    ELSE StrLess(Tail(a), Tail(b))

StrLeq(a, b) == a = b \/ StrLess(a, b)

\* sub is a prefix of s.
StartsWith(s, sub) ==
    Len(sub) <= Len(s) /\ SubSeq(s, 1, Len(sub)) = sub

\* Python's "sub in s".
Contains(s, sub) ==
    \E i \in 1..(Len(s) - Len(sub) + 1) : SubSeq(s, i, i + Len(sub) - 1) = sub

\* Python's s.split(sep): the pieces between the occurrences of sep, found
\* left to right without overlap.
RECURSIVE SplitFrom(_, _, _)
SplitFrom(s, sep, piece) ==
    IF s = <<>> THEN <<piece>>
    ELSE IF StartsWith(s, sep)
         THEN <<piece>> \o SplitFrom(SubSeq(s, Len(sep) + 1, Len(s)), sep, <<>>)
         ELSE SplitFrom(Tail(s), sep, Append(piece, Head(s)))

split(s, sep) == SplitFrom(s, sep, <<>>)

\* Python's sep.join(parts).
RECURSIVE join(_, _)
join(sep, parts) ==
    IF parts = <<>> THEN <<>>
    ELSE IF Len(parts) = 1 THEN parts[1]
    ELSE parts[1] \o sep \o join(sep, Tail(parts))

Digit(d) == Alphabet[d + 3]

\* str() of a non-negative int.
RECURSIVE IntToStr(_)
IntToStr(n) ==
    IF n < 10 THEN <<Digit(n)>> ELSE Append(IntToStr(n \div 10), Digit(n % 10))

\* The decimal digits of n, padded with zeros to width w.
RECURSIVE ZeroPad(_, _)
ZeroPad(n, w) ==
    IF w = 0 THEN <<>> ELSE Append(ZeroPad(n \div 10, w - 1), Digit(n % 10))

\* Python's str(x) of a str or an int.
str(x) == IF x.t = "int" THEN IntToStr(x.v) ELSE x.v

(***************************************************************************)
(* dicts                                                                   *)
(***************************************************************************)
\* d[k] = v: an existing key keeps its place and takes the new value, a new
\* key goes last.
DictSet(d, k, v) ==
    IF \E i \in 1..Len(d) : d[i][1] = k
    THEN [i \in 1..Len(d) |-> IF d[i][1] = k THEN <<k, v>> ELSE d[i]]
    ELSE Append(d, <<k, v>>)

\* {str(k): str(v) for k, v in d.items()}
RECURSIVE StrDictFrom(_, _)
StrDictFrom(d, acc) ==
    IF d = <<>> THEN acc
    ELSE StrDictFrom(Tail(d),
                     DictSet(acc, PyStr(str(d[1][1])), PyStr(str(d[1][2]))))

StrDict(d) == StrDictFrom(d, <<>>)

\* sorted(items, key=lambda x: x[0], reverse=False): a stable sort by key.
RECURSIVE InsertByKey(_, _)
InsertByKey(sorted, item) ==
    IF sorted = <<>> THEN <<item>>
    ELSE IF StrLess(item[1].v, sorted[1][1].v)
         THEN <<item>> \o sorted
         ELSE <<sorted[1]>> \o InsertByKey(Tail(sorted), item)

\* A sort that is left out: the items stay in insertion order.
SortedByKey_unsorted(items) == items

RECURSIVE SortedByKey(_)
SortedByKey(items) ==
    IF items = <<>> THEN <<>>
    ELSE InsertByKey(SortedByKey(SubSeq(items, 1, Len(items) - 1)),
                     items[Len(items)])

(***************************************************************************)
(* Request record model                                                    *)
(***************************************************************************)
KEY_VALUE_DELIMITER == <<"#">>
IDENTIFIER_DELIMITER == KEY_VALUE_DELIMITER \o KEY_VALUE_DELIMITER

INBOUND == <<"I", "N", "B", "O", "U", "N", "D">>
OUTBOUND == <<"O", "U", "T", "B", "O", "U", "N", "D">>
RecordType == {INBOUND, OUTBOUND}

make_identifier_string(record_type, identifier) ==
    LET items == SortedByKey(StrDict(identifier))
        pairs == [i \in 1..Len(items) |->
                    items[i][1].v \o KEY_VALUE_DELIMITER \o items[i][2].v]
    IN  record_type \o IDENTIFIER_DELIMITER \o join(IDENTIFIER_DELIMITER, pairs)

TracingContext(trace_id, record_id) ==
    [trace_id |-> trace_id, record_id |-> record_id]

RequestContext(identifier, invoked_at) ==
    [identifier |-> identifier, invoked_at |-> invoked_at]

\* Outcomes of a call: a returned value or a raised exception.
Return(v) == [ok |-> TRUE, value |-> v]
Raise(e, m) == [ok |-> FALSE, exc |-> e, msg |-> m]

\* A check of the keys alone.
check_for_delimiter_in_keys(identifier) ==
    \E i \in 1..Len(identifier) :
        Contains(identifier[i][1].v, KEY_VALUE_DELIMITER)

\* IdentifierField._check_for_delimiter_in_dict: TRUE when it raises.
check_for_delimiter_in_dict(identifier) ==
    \/ \E i \in 1..Len(identifier) :
          Contains(identifier[i][1].v, KEY_VALUE_DELIMITER)
    \/ \E i \in 1..Len(identifier) :
          Contains(identifier[i][2].v, KEY_VALUE_DELIMITER)

\* A check for the first record type alone.
check_for_inbound_in_dict(identifier) ==
    \/ \E i \in 1..Len(identifier) : Contains(identifier[i][1].v, INBOUND)
    \/ \E i \in 1..Len(identifier) : Contains(identifier[i][2].v, INBOUND)

\* IdentifierField._check_for_record_type_in_dict: TRUE when it raises.
check_for_record_type_in_dict(identifier) ==
    \E record_type \in RecordType :
        \/ \E i \in 1..Len(identifier) : Contains(identifier[i][1].v, record_type)
        \/ \E i \in 1..Len(identifier) : Contains(identifier[i][2].v, record_type)

\* IdentifierField._serialize, value a dict and obj.record_type a RecordType.
IdentifierField_serialize(value, record_type) ==
    LET identifier == StrDict(value)
    IN  IF check_for_delimiter_in_dict(identifier)
        THEN Raise("ValidationError", "delimiter")
        ELSE IF check_for_record_type_in_dict(identifier)
        THEN Raise("ValidationError", "record type")
        ELSE Return(make_identifier_string(record_type, identifier))

\* datetime.isoformat() of a naive datetime.  Every datetime of the model lies
\* in one minute, so the common "YYYY-MM-DDTHH:MM:" is left out: v counts the
\* microseconds of that minute.  A zero microsecond field is not written.
isoformat(dt) ==
    ZeroPad(dt.v \div 1000000, 2) \o
        (IF dt.v % 1000000 = 0 THEN <<>>
         ELSE <<".">> \o ZeroPad(dt.v % 1000000, 6))

DigitValue(c) == ord(c) - 3

RECURSIVE StrToInt(_)
StrToInt(s) ==
    IF s = <<>> THEN 0
    ELSE StrToInt(SubSeq(s, 1, Len(s) - 1)) * 10 + DigitValue(s[Len(s)])

\* s.ljust(w, "0")
RECURSIVE ljust0(_, _)
ljust0(s, w) == IF Len(s) >= w THEN s ELSE ljust0(Append(s, "0"), w)

\* The datetime an ISO string is loaded as (the DateTime field of
\* RequestRecord.load): the seconds, and the fraction filled up to six digits.
fromisoformat(s) ==
    LET parts == split(s, <<".">>)
    IN  PyTime(StrToInt(parts[1]) * 1000000 +
               (IF Len(parts) = 1 THEN 0 ELSE StrToInt(ljust0(parts[2], 6))))

\* RequestRecord(...).dump(): record_type is load_only and is not dumped; a
\* UUID is dumped as its canonical string, which names it.
RequestRecord_dump(record_type, identifier, time_constraint, trace_id, record_id) ==
    LET id == IdentifierField_serialize(identifier, record_type)
    IN  IF ~id.ok THEN id
        ELSE Return([identifier |-> id.value,
                     time_constraint |-> isoformat(time_constraint),
                     trace_id |-> trace_id.v,
                     record_id |-> record_id.v])

\* A guard that wants both ids missing.
missing_both_ids(trace_context) ==
    \/ trace_context = None
    \/ trace_context.trace_id = None /\ trace_context.record_id = None

\* The guard of make_record's first raise.
missing_tracing_context(trace_context) ==
    \/ trace_context = None
    \/ trace_context.trace_id = None
    \/ trace_context.record_id = None

\* A time constraint that falls back to the start of the minute.
time_constraint_defaulted(request_context) ==
    Return(IF request_context.invoked_at = None THEN PyTime(0)
           ELSE request_context.invoked_at)

\* time_constraint = request_context.invoked_at and the raise that follows.
time_constraint_of(request_context) ==
    IF request_context.invoked_at = None
    THEN Raise("InvalidContextException", "time constraint")
    ELSE Return(request_context.invoked_at)

make_record(record_type, request_context, trace_context) ==
    IF missing_tracing_context(trace_context)
    THEN Raise("InvalidContextException", "tracing context")
    ELSE IF ~time_constraint_of(request_context).ok
    THEN time_constraint_of(request_context)
    ELSE LET dumped == RequestRecord_dump(record_type,
                                          request_context.identifier,
                                          time_constraint_of(request_context).value,
                                          trace_context.trace_id,
                                          trace_context.record_id)
         IN  IF dumped.ok THEN dumped
             ELSE Raise("InvalidContextException", dumped.msg)

(***************************************************************************)
(* Inputs                                                                  *)
(***************************************************************************)
Str_a == PyStr(<<"a">>)
Str_b == PyStr(<<"b">>)
Str_4 == PyStr(<<"4">>)
Int_4 == PyInt(4)
Str_empty == PyStr(<<>>)

\* Keys and values of the identifiers handed to make_record: plain ones, an
\* int and the str it is coerced to, an empty str, ones that hold the
\* delimiter and ones that hold a record type.
KeyAtoms ==
    {Str_b, Str_4, Int_4, PyStr(<<"a", "#">>), PyStr(INBOUND)}
ValueAtoms ==
    {Str_a, Str_empty, Int_4, PyStr(<<"#">>), PyStr(<<"u">> \o OUTBOUND)}

\* The dicts of n items over the atoms.
DictsOfLen(n) ==
    {d \in [1..n -> KeyAtoms \X ValueAtoms] :
        \A i, j \in 1..n : i # j => d[i][1] # d[j][1]}

\* The identifier of test_make_record_for_outbound_request.
ExampleIdentifier ==
    << <<PyStr(<<"x", "_", "a">>), PyStr(<<"a", "_", "v", "a", "l", "u", "e">>)>>,
       <<PyStr(<<"f", "o", "o", "_", "b", "a", "r">>),
         PyStr(<<"b", "a", "r", "_", "f", "o", "o">>)>>,
       <<PyStr(<<"i", "d">>), PyInt(1234)>> >>

Identifiers ==
    UNION {DictsOfLen(n) : n \in 0..MaxEntries} \cup {ExampleIdentifier}

\* Clock values: 58.999000 s, 59 s (no microseconds) and 59.000500 s, which
\* lie 500, 1000 and 1500 microseconds apart.
Times == {PyTime(58999000), PyTime(59000000), PyTime(59000500)}

RecordTimes == {None, PyTime(58999000), PyTime(59000000)}


TracingContexts ==
    {None} \cup
    {TracingContext(tid, rid) : tid \in {None, PyUUID("T1")},
                                rid \in {None, PyUUID("R1")}}


\* Identifiers of the contexts: {"b": "a"}, the empty dict and {"b": "#"}.
Id_ba == << <<Str_b, Str_a>> >>
Id_empty == << >>
Id_delimiter == << <<Str_b, PyStr(<<"#">>)>> >>

T1R1 == TracingContext(PyUUID("T1"), PyUUID("R1"))
T2R2 == TracingContext(PyUUID("T2"), PyUUID("R2"))

FirstTime == PyTime(58999000)
\* 900 milliseconds after the latest record.
LateTime == PyTime(59900500)

\* Arguments of the record calls: {"b": "a"} at every timestamp under either
\* tracing context and {} at every timestamp; a call the backend fails; and
\* one call for each reason make_record has to raise.
RecordArgs ==
    {[request_context |-> RequestContext(Id_ba, at), trace_context |-> tc,
      client_error |-> FALSE] : at \in Times, tc \in {T1R1, T2R2}}
    \cup
    {[request_context |-> RequestContext(Id_empty, at), trace_context |-> T1R1,
      client_error |-> FALSE] : at \in Times}
    \cup
    {[request_context |-> RequestContext(Id_ba, FirstTime),
      trace_context |-> T1R1, client_error |-> TRUE]}
    \cup
    {[request_context |-> RequestContext(Id_delimiter, FirstTime),
      trace_context |-> T1R1, client_error |-> FALSE],
     [request_context |-> RequestContext(Id_ba, None),
      trace_context |-> T1R1, client_error |-> FALSE],
     [request_context |-> RequestContext(Id_ba, FirstTime),
      trace_context |-> TracingContext(None, None), client_error |-> FALSE]}

\* Arguments of the find calls.
FindArgs ==
    {[request_context |-> RequestContext(id, at), client_error |-> FALSE] :
        id \in {Id_ba, Id_empty}, at \in Times}
    \cup
    {[request_context |-> RequestContext(Id_ba, FirstTime),
      client_error |-> TRUE],
     [request_context |-> RequestContext(Id_ba, LateTime),
      client_error |-> FALSE],
     [request_context |-> RequestContext(Id_ba, None), client_error |-> FALSE]}

\* make_record of every argument a record call of the model takes, worked out
\* once.
MadeRecords ==
    [record_type \in RecordType |->
        [a \in RecordArgs |->
            make_record(record_type, a.request_context, a.trace_context)]]

(***************************************************************************)
(* AWSRequestTable.  The DynamoDB table is the set of its items, at most   *)
(* one for each (identifier, time_constraint): the partition and the sort  *)
(* key.  An item holds the four dumped strings and, as history, the name   *)
(* of the method that put it (by).                                         *)
(***************************************************************************)
SameKey(a, b) ==
    a.identifier = b.identifier /\ a.time_constraint = b.time_constraint

\* A put that adds the item and replaces none.
put_item_blind(tbl, item) == tbl \cup {item}

\* A put that writes the attributes of an item one after the other: caught
\* halfway, the item has the new trace_id and still the old record_id.
put_item_by_attribute(tbl, item) ==
    {i \in tbl : ~SameKey(i, item)} \cup
        {[item EXCEPT !.record_id =
            IF \E i \in tbl : SameKey(i, item)
            THEN (CHOOSE i \in tbl : SameKey(i, item)).record_id
            ELSE @]}

\* dynamodb.put_item: the item takes the place of the one with its key.
put_item(tbl, item) == {i \in tbl : ~SameKey(i, item)} \cup {item}

\* The items of a set in ascending order of the sort key, as a query
\* returns them (ScanIndexForward is left at its default).
RECURSIVE BySortKey(_)
BySortKey(items) ==
    IF items = {} THEN <<>>
    ELSE LET first == CHOOSE i \in items :
                        \A j \in items :
                            StrLeq(i.time_constraint, j.time_constraint)
         IN  <<first>> \o BySortKey(items \ {first})

\* dynamodb.query with ":part_key = :id AND :sort_key <= :tc"
query_le(tbl, id, tc) ==
    BySortKey({i \in tbl : i.identifier = id /\ StrLeq(i.time_constraint, tc)})

\* dynamodb.query with ":part_key = :id AND :sort_key >= :tc"
query_ge(tbl, id, tc) ==
    BySortKey({i \in tbl : i.identifier = id /\ StrLeq(tc, i.time_constraint)})

\* IdentifierField._deserialize: the dict of the string, and the record type
\* it writes into the loaded data.
IdentifierField_deserialize(value) ==
    LET identifier == split(value, IDENTIFIER_DELIMITER)
        items == [i \in 1..(Len(identifier) - 1) |->
                    split(identifier[i + 1], KEY_VALUE_DELIMITER)]
        RECURSIVE ToDict(_, _)
        ToDict(rest, acc) ==
            IF rest = <<>> THEN acc
            ELSE ToDict(Tail(rest),
                        DictSet(acc, PyStr(rest[1][1]), PyStr(rest[1][2])))
    IN  IF \E i \in 1..Len(items) : Len(items[i]) < 2
        THEN Raise("ValidationError", "malformed")
        ELSE Return([identifier |-> ToDict(items, <<>>),
                     record_type |-> identifier[1]])

\* RequestRecord.load(item)
RequestRecord_load(item) ==
    LET id == IdentifierField_deserialize(item.identifier)
    IN  IF ~id.ok THEN id
        ELSE IF id.value.record_type \notin RecordType
        THEN Raise("ValidationError", "record type")
        ELSE Return([identifier |-> id.value.identifier,
                     record_type |-> id.value.record_type,
                     time_constraint |-> fromisoformat(item.time_constraint),
                     trace_id |-> PyUUID(item.trace_id),
                     record_id |-> PyUUID(item.record_id)])

\* The outcome of a find, with the item the query gave first (None: none).
Found(trace_context, item) ==
    [ok |-> TRUE, value |-> trace_context, item |-> item]
Failed(e, m, item) == [ok |-> FALSE, exc |-> e, msg |-> m, item |-> item]

\* A first item that is taken with no handler for the IndexError.
first_item_unhandled(items) ==
    IF items = <<>> THEN Failed("IndexError", "list index out of range", None)
    ELSE Found(TracingContext(PyUUID(items[1].trace_id),
                              PyUUID(items[1].record_id)), items[1])

\* What both finds do with the items of the response.
first_item(items) ==
    IF items = <<>> THEN Failed("RequestTableError", "not found", None)
    ELSE LET request_record == RequestRecord_load(items[1])
         IN  IF ~request_record.ok
             THEN Failed("RequestTableError", "deserialize", items[1])
             ELSE Found(TracingContext(request_record.value.trace_id,
                                       request_record.value.record_id),
                        items[1])

\* An upper bound with no tolerance.
inbound_upper_bound_exact(inbound_context) == inbound_context.invoked_at

\* invoked_at of find_tracing_context_by_inbound_context: the sort key's
\* upper bound.
inbound_upper_bound(inbound_context) ==
    PyTime(inbound_context.invoked_at.v + 1000)

\* A find by inbound context that searches the inbound records.
find_by_inbound_among_inbound(tbl, inbound_context, client_error) ==
    IF inbound_context.invoked_at = None
    THEN Failed("TypeError", "invoked_at", None)
    ELSE LET identifer == make_identifier_string(INBOUND,
                                                 inbound_context.identifier)
             invoked_at == inbound_upper_bound(inbound_context)
         IN  IF client_error THEN Failed("RequestTableError", "query", None)
             ELSE first_item(query_le(tbl, identifer, isoformat(invoked_at)))

\* The requests a find sends: one query, unless the bound of the sort key
\* cannot be worked out.
find_requests(request_context) ==
    IF request_context.invoked_at = None THEN <<>> ELSE <<[op |-> "query"]>>

\* client_error: the backend answers the query with a ClientError.
find_tracing_context_by_outbound_request(tbl, outbound_context, client_error) ==
    IF outbound_context.invoked_at = None
    THEN Failed("TypeError", "invoked_at", None)
    ELSE LET identifer == make_identifier_string(INBOUND,
                                                 outbound_context.identifier)
             invoked_at == PyTime(outbound_context.invoked_at.v - 1000)
         IN  IF client_error THEN Failed("RequestTableError", "query", None)
             ELSE first_item(query_ge(tbl, identifer, isoformat(invoked_at)))

find_tracing_context_by_inbound_context(tbl, inbound_context, client_error) ==
    IF inbound_context.invoked_at = None
    THEN Failed("TypeError", "invoked_at", None)
    ELSE LET identifer == make_identifier_string(OUTBOUND,
                                                 inbound_context.identifier)
             invoked_at == inbound_upper_bound(inbound_context)
         IN  IF client_error THEN Failed("RequestTableError", "query", None)
             ELSE first_item(query_le(tbl, identifer, isoformat(invoked_at)))

\* item = self._serialize(record): the four strings of the record; by, the
\* method that puts it, is kept as history.
record_item(record, by) ==
    [identifier |-> record.identifier,
     time_constraint |-> record.time_constraint,
     trace_id |-> record.trace_id,
     record_id |-> record.record_id,
     by |-> by]

\* The try block of a record call; client_error: the backend answers
\* put_item with a ClientError.
put_built(tbl, item, client_error) ==
    IF client_error
    THEN [table |-> tbl, result |-> Raise("RequestTableError", "put"),
          backend |-> <<[op |-> "put_item", item |-> item]>>]
    ELSE [table |-> put_item(tbl, item), result |-> Return(None),
          backend |-> <<[op |-> "put_item", item |-> item]>>]

\* What follows make_record in a record call: its exception leaves the
\* method, its record is put.
put_record(tbl, record, by, client_error) ==
    IF ~record.ok
    THEN [table |-> tbl, result |-> record, backend |-> <<>>]
    ELSE put_built(tbl, record_item(record.value, by), client_error)

\* The table, the outcome and the backend requests of a record call.
record_request(tbl, record_type, by, request_context, trace_context, client_error) ==
    put_record(tbl,
               MadeRecords[record_type][
                   [request_context |-> request_context,
                    trace_context |-> trace_context,
                    client_error |-> client_error]],
               by, client_error)

\* A record call that looks the key up first and writes only when the table
\* holds no item with it.
record_outbound_if_absent(tbl, outbound_context, trace_context, client_error) ==
    LET r == record_request(tbl, OUTBOUND, "record_outbound_request",
                            outbound_context, trace_context, client_error)
    IN  IF r.backend # <<>> /\ \E i \in tbl : SameKey(i, r.backend[1].item)
        THEN [table |-> tbl, result |-> Return(None),
              backend |-> <<[op |-> "query"]>>]
        ELSE r

record_outbound_request(tbl, outbound_context, trace_context, client_error) ==
    record_request(tbl, OUTBOUND, "record_outbound_request",
                   outbound_context, trace_context, client_error)

\* A record call that reports a record it cannot build as a failure of the
\* table.
record_inbound_wrapping(tbl, inbound_context, trace_context, client_error) ==
    LET r == record_request(tbl, INBOUND, "record_inbound_request",
                            inbound_context, trace_context, client_error)
    IN  IF ~r.result.ok /\ r.result.exc = "InvalidContextException"
        THEN [r EXCEPT !.result = Raise("RequestTableError", r.result.msg)]
        ELSE r

record_inbound_request(tbl, inbound_context, trace_context, client_error) ==
    record_request(tbl, INBOUND, "record_inbound_request",
                   inbound_context, trace_context, client_error)

(***************************************************************************)
(* State: the DynamoDB table, the last call and its outcome.               *)
(***************************************************************************)
NoCall == [op |-> "init", args |-> <<>>, again |-> FALSE]
Pending == [ok |-> FALSE, exc |-> "", msg |-> "pending"]

(***************************************************************************)
(* make_record on its own: the call is drawn in the initial state and      *)
(* MakeRecord runs it.                                                     *)
(***************************************************************************)
MakeRecordCalls ==
    {[op |-> "make_record",
      record_type |-> record_type,
      request_context |-> RequestContext(identifier, invoked_at),
      trace_context |-> trace_context] :
        record_type \in RecordType, identifier \in Identifiers,
        invoked_at \in RecordTimes, trace_context \in TracingContexts}

InitRecord ==
    /\ table = {}
    /\ call \in MakeRecordCalls
    /\ result = Pending
    /\ backend = <<>>
    /\ NoTraces /\ NoProcesses /\ NoStorage

MakeRecord ==
    /\ call.op = "make_record"
    /\ result = Pending
    /\ result' = make_record(call.record_type, call.request_context,
                             call.trace_context)
    /\ UNCHANGED <<table, call, backend>>
    /\ UNCHANGED <<trace_vars, process_vars, storage_vars>>

NextRecord == MakeRecord

SpecRecord == InitRecord /\ [][NextRecord]_vars

(***************************************************************************)
(* The request table in use: record and find calls in any order.           *)
(***************************************************************************)
\* The call is the one before it, made again.
Again(op, args) == call.op = op /\ call.args = args

Init ==
    /\ table = {}
    /\ call = NoCall
    /\ result = Return(None)
    /\ backend = <<>>
    /\ NoTraces /\ NoProcesses /\ NoStorage

RecordOutbound ==
    \E a \in RecordArgs :
        LET after == record_outbound_request(table, a.request_context,
                                             a.trace_context, a.client_error)
        IN  /\ Cardinality(after.table) <= MaxItems
            /\ table' = after.table
            /\ result' = after.result
            /\ backend' = after.backend
            /\ call' = [op |-> "record_outbound_request", args |-> a,
                        again |-> Again("record_outbound_request", a)]
            /\ UNCHANGED <<trace_vars, process_vars, storage_vars>>

RecordInbound ==
    \E a \in RecordArgs :
        LET after == record_inbound_request(table, a.request_context,
                                            a.trace_context, a.client_error)
        IN  /\ Cardinality(after.table) <= MaxItems
            /\ table' = after.table
            /\ result' = after.result
            /\ backend' = after.backend
            /\ call' = [op |-> "record_inbound_request", args |-> a,
                        again |-> Again("record_inbound_request", a)]
            /\ UNCHANGED <<trace_vars, process_vars, storage_vars>>

\* A find that takes the record it returns out of the table.
FindByInbound_consuming ==
    \E a \in FindArgs :
        LET found == find_tracing_context_by_inbound_context(
                        table, a.request_context, a.client_error)
        IN  /\ result' = found
            /\ backend' = find_requests(a.request_context)
            /\ call' = [op |-> "find_tracing_context_by_inbound_context",
                        args |-> a,
                        again |-> Again("find_tracing_context_by_inbound_context", a)]
            /\ table' = IF found.ok THEN table \ {found.item} ELSE table
            /\ UNCHANGED <<trace_vars, process_vars, storage_vars>>

FindByInbound ==
    \E a \in FindArgs :
        /\ result' = find_tracing_context_by_inbound_context(
                        table, a.request_context, a.client_error)
        /\ backend' = find_requests(a.request_context)
        /\ call' = [op |-> "find_tracing_context_by_inbound_context", args |-> a,
                    again |-> Again("find_tracing_context_by_inbound_context", a)]
        /\ UNCHANGED table
        /\ UNCHANGED <<trace_vars, process_vars, storage_vars>>

FindByOutbound ==
    \E a \in FindArgs :
        /\ result' = find_tracing_context_by_outbound_request(
                        table, a.request_context, a.client_error)
        /\ backend' = find_requests(a.request_context)
        /\ call' = [op |-> "find_tracing_context_by_outbound_request", args |-> a,
                    again |-> Again("find_tracing_context_by_outbound_request", a)]
        /\ UNCHANGED table
        /\ UNCHANGED <<trace_vars, process_vars, storage_vars>>

Next == RecordOutbound \/ RecordInbound \/ FindByInbound \/ FindByOutbound

Spec == Init /\ [][Next]_vars

(***************************************************************************)
(* Properties of make_record and of the identifier codec.                  *)
(***************************************************************************)
\* The reorderings of a dict's items.
PermsOf(d) ==
    {[i \in 1..Len(d) |-> d[f[i]]] :
        f \in {g \in [1..Len(d) -> 1..Len(d)] :
                 \A i, j \in 1..Len(d) : i # j => g[i] # g[j]}}

\* Some key or value of the str dict d holds sub.
Holds(d, sub) ==
    \E i \in 1..Len(d) : Contains(d[i][1].v, sub) \/ Contains(d[i][2].v, sub)

Ran == call.op = "make_record" /\ result # Pending

\* C6: for either record kind, the identifier string of a built record is the
\* same for every insertion order of the identifier's items.
C6_EncodingDeterminism ==
    (Ran /\ result.ok) =>
        \A p \in PermsOf(call.request_context.identifier) :
            make_identifier_string(call.record_type, p) = result.value.identifier

\* C7: the identifier field of a built record is the record type and "##" and
\* then the "key#value" pairs of the stringified dict, in strictly ascending
\* order of the keys, joined by "##"; its time_constraint reads back as the
\* context's invoked_at and its ids are those of the tracing context.
C7_CanonicalKeyFormat ==
    (Ran /\ result.ok) =>
        /\ \E p \in PermsOf(StrDict(call.request_context.identifier)) :
              /\ \A i \in 1..(Len(p) - 1) : StrLess(p[i][1].v, p[i + 1][1].v)
              /\ result.value.identifier =
                    call.record_type \o <<"#", "#">> \o
                    join(<<"#", "#">>,
                         [i \in 1..Len(p) |-> p[i][1].v \o <<"#">> \o p[i][2].v])
        /\ fromisoformat(result.value.time_constraint)
              = call.request_context.invoked_at
        /\ result.value.trace_id = call.trace_context.trace_id.v
        /\ result.value.record_id = call.trace_context.record_id.v

\* The record of test_make_record_for_outbound_request:
\* "OUTBOUND##foo_bar#bar_foo##id#1234##x_a#a_value".
C7_Witness ==
    /\ Ran /\ result.ok
    /\ call.record_type = OUTBOUND
    /\ call.request_context.identifier = ExampleIdentifier
    /\ result.value.identifier =
          << "O", "U", "T", "B", "O", "U", "N", "D", "#", "#",
             "f", "o", "o", "_", "b", "a", "r", "#",
             "b", "a", "r", "_", "f", "o", "o", "#", "#",
             "i", "d", "#", "1", "2", "3", "4", "#", "#",
             "x", "_", "a", "#", "a", "_", "v", "a", "l", "u", "e" >>

\* C8: make_record raises InvalidContextException, and returns no record,
\* whenever a key or a value of the identifier coerced to strings
\* ({str(k): str(v)}) holds the delimiter "#", for either record kind.
C8_DelimiterRejected ==
    (Ran /\ Holds(StrDict(call.request_context.identifier), <<"#">>)) =>
        (~result.ok /\ result.exc = "InvalidContextException")

\* A delimiter in a value only, with a tracing context and a timestamp.
C8_Witness ==
    /\ Ran
    /\ result = Raise("InvalidContextException", "delimiter")
    /\ \A i \in 1..Len(call.request_context.identifier) :
          ~Contains(str(call.request_context.identifier[i][1]), <<"#">>)

\* C9: make_record raises InvalidContextException whenever a key or a value
\* of the identifier coerced to strings holds "INBOUND" or "OUTBOUND",
\* whichever kind the record has.
C9_RecordTypeRejected ==
    (Ran /\ \E record_type \in {INBOUND, OUTBOUND} :
                Holds(StrDict(call.request_context.identifier), record_type)) =>
        (~result.ok /\ result.exc = "InvalidContextException")

\* An INBOUND record whose identifier holds "OUTBOUND" and no "INBOUND".
C9_Witness ==
    /\ Ran
    /\ result = Raise("InvalidContextException", "record type")
    /\ call.record_type = INBOUND
    /\ ~Holds(StrDict(call.request_context.identifier), INBOUND)

\* C10: make_record raises InvalidContextException whenever the tracing
\* context is None or its trace_id or its record_id is None, whatever the
\* bound context holds.
C10_MissingTracingContext ==
    (Ran /\ (\/ call.trace_context = None
             \/ call.trace_context.trace_id = None
             \/ call.trace_context.record_id = None)) =>
        (~result.ok /\ result.exc = "InvalidContextException")

\* A tracing context with a trace_id and no record_id, the bound context
\* being fit for a record.
C10_Witness ==
    /\ Ran
    /\ call.trace_context # None
    /\ call.trace_context.trace_id # None
    /\ call.trace_context.record_id = None
    /\ make_record(call.record_type, call.request_context,
                   TracingContext(PyUUID("T1"), PyUUID("R1"))).ok
    /\ result = Raise("InvalidContextException", "tracing context")

(***************************************************************************)
(* Properties of the request table.                                        *)
(***************************************************************************)
FoundByInbound == call.op = "find_tracing_context_by_inbound_context"
FoundByOutbound == call.op = "find_tracing_context_by_outbound_request"

\* The find reached the backend and the backend answered.
Answered ==
    /\ ~call.args.client_error
    /\ call.args.request_context.invoked_at # None

\* The microseconds an item's time_constraint stands for.
TimeOf(item) == fromisoformat(item.time_constraint).v

\* The OUTBOUND records of the table for the identifier of the call whose
\* time is at most us.
OutboundUpTo(us) ==
    {i \in table :
        /\ i.by = "record_outbound_request"
        /\ i.identifier = make_identifier_string(
                              OUTBOUND, call.args.request_context.identifier)
        /\ TimeOf(i) <= us}

\* The OUTBOUND records of the table for the identifier of the call.
OutboundRecords ==
    {i \in table :
        /\ i.by = "record_outbound_request"
        /\ i.identifier = make_identifier_string(
                              OUTBOUND, call.args.request_context.identifier)}

\* C1: when the table holds one OUTBOUND record for the identifier of an
\* inbound context, put by record_outbound_request with a time_constraint at
\* or before the context's invoked_at, and the backend answers, then
\* find_tracing_context_by_inbound_context returns the trace_id and the
\* record_id of that record.
C1_WriteThenResolve ==
    (FoundByInbound /\ Answered) =>
        \A i \in OutboundUpTo(call.args.request_context.invoked_at.v) :
            OutboundRecords = {i}
                => /\ result.ok
                   /\ result.value = TracingContext(PyUUID(i.trace_id),
                                                    PyUUID(i.record_id))

\* C2: the record find_tracing_context_by_inbound_context returns is the
\* latest of the OUTBOUND records with the searched key whose time is at most
\* invoked_at plus 1000 microseconds.
C2_MostRecentCandidate ==
    (FoundByInbound /\ result.ok) =>
        \A i \in OutboundUpTo(call.args.request_context.invoked_at.v + 1000) :
            TimeOf(i) <= TimeOf(result.item)

\* C3: an inbound find whose query is answered gets a record when, and only
\* when, the table holds an OUTBOUND record for the identifier whose time is
\* at most 1000 microseconds after invoked_at, and the record it gets is one
\* of those: never one that is later.
C3_ToleranceBoundary ==
    (FoundByInbound /\ Answered) =>
        LET matching == OutboundUpTo(call.args.request_context.invoked_at.v + 1000)
        IN  IF matching = {}
            THEN ~result.ok /\ result.item = None
            ELSE result.item \in matching

\* A record exactly 1000 microseconds after invoked_at is returned while the
\* table also holds one for the identifier that is 1500 microseconds after.
C3_Witness ==
    /\ FoundByInbound /\ Answered /\ result.ok
    /\ TimeOf(result.item) = call.args.request_context.invoked_at.v + 1000
    /\ \E j \in table :
          /\ j.identifier = result.item.identifier
          /\ TimeOf(j) = call.args.request_context.invoked_at.v + 1500

C5_ComplementaryKind ==
    /\ (FoundByInbound /\ result.item # None) =>
          /\ result.item.by = "record_outbound_request"
          /\ StartsWith(result.item.identifier, OUTBOUND \o <<"#", "#">>)
    /\ (FoundByOutbound /\ result.item # None) =>
          /\ result.item.by = "record_inbound_request"
          /\ StartsWith(result.item.identifier, INBOUND \o <<"#", "#">>)

\* An inbound find returns an OUTBOUND record while the table holds an
\* INBOUND record of the same identifier and the same timestamp.
C5_Witness ==
    /\ FoundByInbound /\ result.ok
    /\ \E j \in table :
          /\ j.by = "record_inbound_request"
          /\ j.time_constraint = result.item.time_constraint
          /\ j.identifier = make_identifier_string(
                                INBOUND, call.args.request_context.identifier)

\* The tracing context of the make_record call has both of its ids.
FullTracingContext ==
    /\ call.trace_context # None
    /\ call.trace_context.trace_id # None
    /\ call.trace_context.record_id # None

\* C11: make_record of a context without invoked_at, with a tracing context
\* that has both ids, raises InvalidContextException for either record type
\* and whatever the identifier is.
C11_MissingTimeConstraint ==
    (Ran /\ FullTracingContext /\ call.request_context.invoked_at = None) =>
        ~result.ok /\ result.exc = "InvalidContextException"

\* An INBOUND record of the example identifier is refused for its missing
\* timestamp.
C11_Witness ==
    /\ Ran /\ FullTracingContext
    /\ call.record_type = INBOUND
    /\ call.request_context = RequestContext(ExampleIdentifier, None)
    /\ result = Raise("InvalidContextException", "time constraint")

(***************************************************************************)
(* NoopRequestTable: the request table of the providers without one.       *)
(***************************************************************************)
\* An abstract find that raises, as abstract methods often do.
RequestTable_find_not_implemented(request_context) ==
    Raise("NotImplementedError", "abstract")

\* RequestTable.find_tracing_context_by_inbound_context and
\* RequestTable.find_tracing_context_by_outbound_request: the abstract
\* methods' body is `pass`.
RequestTable_find_tracing_context(request_context) == Return(None)

\* logger.warn(...) and nothing else.
NoopRequestTable_record_inbound_request(inbound_context, trace_context) ==
    Return(None)

NoopRequestTable_record_outbound_request(outbound_context, trace_context) ==
    Return(None)

\* return super().find_tracing_context_by_inbound_context(inbound_context)
NoopRequestTable_find_tracing_context_by_inbound_context(inbound_context) ==
    RequestTable_find_tracing_context(inbound_context)

\* return super().find_tracing_context_by_outbound_request(outbound_context)
NoopRequestTable_find_tracing_context_by_outbound_request(outbound_context) ==
    RequestTable_find_tracing_context(outbound_context)

\* Contexts handed to the no-op table: with and without entries, with an
\* entry make_record refuses, with and without a timestamp.
NoopContexts ==
    {RequestContext(id, at) :
        id \in {Id_ba, Id_empty, Id_delimiter}, at \in {None, FirstTime}}

NoopRecordArgs ==
    {[request_context |-> rc, trace_context |-> tc] :
        rc \in NoopContexts, tc \in {None, T1R1, TracingContext(None, None)}}

NoopFindArgs == {[request_context |-> rc] : rc \in NoopContexts}

\* The call before this one.
Before == [op |-> call.op, args |-> call.args]

NoopRecordInbound ==
    \E a \in NoopRecordArgs :
        /\ result' = NoopRequestTable_record_inbound_request(
                        a.request_context, a.trace_context)
        /\ call' = [op |-> "NoopRequestTable.record_inbound_request",
                    args |-> a, before |-> Before]
        /\ UNCHANGED <<table, backend>>
        /\ UNCHANGED <<trace_vars, process_vars, storage_vars>>

NoopRecordOutbound ==
    \E a \in NoopRecordArgs :
        /\ result' = NoopRequestTable_record_outbound_request(
                        a.request_context, a.trace_context)
        /\ call' = [op |-> "NoopRequestTable.record_outbound_request",
                    args |-> a, before |-> Before]
        /\ UNCHANGED <<table, backend>>
        /\ UNCHANGED <<trace_vars, process_vars, storage_vars>>

NoopFindByInbound ==
    \E a \in NoopFindArgs :
        /\ result' = NoopRequestTable_find_tracing_context_by_inbound_context(
                        a.request_context)
        /\ call' = [op |-> "NoopRequestTable.find_tracing_context_by_inbound_context",
                    args |-> a, before |-> Before]
        /\ UNCHANGED <<table, backend>>
        /\ UNCHANGED <<trace_vars, process_vars, storage_vars>>

NoopFindByOutbound ==
    \E a \in NoopFindArgs :
        /\ result' = NoopRequestTable_find_tracing_context_by_outbound_request(
                        a.request_context)
        /\ call' = [op |-> "NoopRequestTable.find_tracing_context_by_outbound_request",
                    args |-> a, before |-> Before]
        /\ UNCHANGED <<table, backend>>
        /\ UNCHANGED <<trace_vars, process_vars, storage_vars>>

NextNoop ==
    NoopRecordInbound \/ NoopRecordOutbound \/ NoopFindByInbound
        \/ NoopFindByOutbound

SpecNoop == Init /\ [][NextNoop]_vars

\* C12: every call of the no-op table returns, and returns None: a record
\* call stores nothing and a find reports no tracing context; no request
\* goes to a backend.
C12_NoopNeverRaises ==
    (call.op # "init") =>
        /\ result.ok
        /\ result.value = None
        /\ table = {}
        /\ backend = <<>>

\* A find by inbound context right after a record_outbound_request of the
\* same identifier, with a full tracing context and a timestamp, finds
\* nothing.
C12_Witness ==
    /\ call.op = "NoopRequestTable.find_tracing_context_by_inbound_context"
    /\ call.before.op = "NoopRequestTable.record_outbound_request"
    /\ call.before.args.request_context = RequestContext(Id_ba, FirstTime)
    /\ call.before.args.trace_context = T1R1
    /\ call.args.request_context = RequestContext(Id_ba, FirstTime)
    /\ result = Return(None)

(***************************************************************************)
(* Properties of the writes of the request table.                          *)
(***************************************************************************)
RecordCalls == {"record_outbound_request", "record_inbound_request"}

\* C13: the table never holds two items with one identifier string and one
\* time_constraint, and a record call made a second time with the same
\* contexts leaves the table as the first call left it.
C13_IdempotentUpsert ==
    /\ [](\A i, j \in table :
            (i.identifier = j.identifier
                /\ i.time_constraint = j.time_constraint) => i = j)
    /\ [][(call'.op \in RecordCalls /\ call'.again) => table' = table]_vars

\* record_outbound_request has put a record and has been made again: the
\* table holds that one record.
C13_Witness ==
    /\ call.op = "record_outbound_request"
    /\ call.again
    /\ result.ok
    /\ Cardinality(table) = 1
    /\ \E i \in table : backend = <<[op |-> "put_item", item |-> i]>>

\* C14: no step of the request table changes the trace_id or the record_id
\* of an item the table holds: the item with its identifier string and its
\* time_constraint carries the same ids after the step.
C14_WriteOnce ==
    [][\A i \in table :
          \E j \in table' :
              /\ j.identifier = i.identifier
              /\ j.time_constraint = i.time_constraint
              /\ j.trace_id = i.trace_id
              /\ j.record_id = i.record_id]_vars

\* The INBOUND records of the table for the identifier of the call whose
\* time is at least us.
InboundFrom(us) ==
    {i \in table :
        /\ i.by = "record_inbound_request"
        /\ i.identifier = make_identifier_string(
                              INBOUND, call.args.request_context.identifier)
        /\ TimeOf(i) >= us}

\* C15: an outbound find whose query is answered returns, when the table
\* holds INBOUND records for the identifier at or after invoked_at minus 1000
\* microseconds, the trace_id and the record_id of the earliest of them; the
\* record it selects is never one before that bound.
C15_SymmetricLookup ==
    (FoundByOutbound /\ Answered) =>
        LET after == InboundFrom(call.args.request_context.invoked_at.v - 1000)
        IN  /\ after # {} =>
                /\ result.ok
                /\ \E i \in after :
                      /\ \A j \in after : TimeOf(i) <= TimeOf(j)
                      /\ result.value = TracingContext(PyUUID(i.trace_id),
                                                       PyUUID(i.record_id))
            /\ result.item # None => result.item \in after

\* What make_record builds for the record call of the state.
Built(record_type) ==
    make_record(record_type, call.args.request_context, call.args.trace_context)

\* C16: a record_outbound_request whose record builds sends the backend one
\* request, a put_item of the built record under an OUTBOUND key, whatever
\* the table holds, and no query; when the backend takes the put the table
\* holds the item.
C16_OutboundWrites ==
    (call.op = "record_outbound_request" /\ Built(OUTBOUND).ok) =>
        /\ Len(backend) = 1
        /\ backend[1].op = "put_item"
        /\ StartsWith(backend[1].item.identifier, OUTBOUND \o <<"#", "#">>)
        /\ backend[1].item.identifier = Built(OUTBOUND).value.identifier
        /\ backend[1].item.time_constraint = Built(OUTBOUND).value.time_constraint
        /\ backend[1].item.trace_id = Built(OUTBOUND).value.trace_id
        /\ backend[1].item.record_id = Built(OUTBOUND).value.record_id
        /\ ~call.args.client_error => backend[1].item \in table

\* The put is sent again for a record the table already holds, next to
\* another record.
C16_Witness ==
    /\ call.op = "record_outbound_request"
    /\ call.again
    /\ Built(OUTBOUND).ok
    /\ Cardinality(table) = 2
    /\ Len(backend) = 1 /\ backend[1].op = "put_item"
    /\ backend[1].item \in table

\* The record type a record call writes.
TypeOf(op) == IF op = "record_outbound_request" THEN OUTBOUND ELSE INBOUND

\* C17: a record call whose record does not build (no tracing context, no
\* timestamp or a refused identifier) raises InvalidContextException, sends
\* the backend nothing and leaves the table as it was.
C17_BuildFailureIsTerminal ==
    [][(/\ call'.op \in RecordCalls
        /\ ~make_record(TypeOf(call'.op), call'.args.request_context,
                        call'.args.trace_context).ok) =>
          /\ ~result'.ok
          /\ result'.exc = "InvalidContextException"
          /\ backend' = <<>>
          /\ table' = table]_vars

\* record_inbound_request has refused an identifier with a delimiter on a
\* table that holds records.
C17_Witness ==
    /\ call.op = "record_inbound_request"
    /\ call.args.request_context.identifier = Id_delimiter
    /\ result = Raise("InvalidContextException", "delimiter")
    /\ backend = <<>>
    /\ Cardinality(table) = 2

(***************************************************************************)
(* AWSOutboundRequestTable of src/faas_profiler_core/outbound.py: the      *)
(* earlier table of outbound requests, keyed by (identifier_key,           *)
(* invoked_at).                                                            *)
(***************************************************************************)
\* sorted(identifier.items(), key=lambda x: x[1], reverse=False): a stable
\* sort by value.
RECURSIVE InsertByValue(_, _)
InsertByValue(sorted, item) ==
    IF sorted = <<>> THEN <<item>>
    ELSE IF StrLess(item[2].v, sorted[1][2].v)
         THEN <<item>> \o sorted
         ELSE <<sorted[1]>> \o InsertByValue(Tail(sorted), item)

RECURSIVE SortedByValue(_)
SortedByValue(items) ==
    IF items = <<>> THEN <<>>
    ELSE InsertByValue(SortedByValue(SubSeq(items, 1, Len(items) - 1)),
                       items[Len(items)])

make_identifier_key(identifier) ==
    LET sorted == SortedByValue(StrDict(identifier))
    IN  join(IDENTIFIER_DELIMITER,
             [i \in 1..Len(sorted) |->
                 join(KEY_VALUE_DELIMITER, <<sorted[i][1].v, sorted[i][2].v>>)])

\* A tracing context of the shape store_request reads: trace_id and
\* invocation_id.
InvocationContext(trace_id, invocation_id) ==
    [trace_id |-> trace_id, invocation_id |-> invocation_id]

\* str(x) of a UUID or of None.
StrOf(x) == x.v

SameOutboundKey(a, b) ==
    a.identifier_key = b.identifier_key /\ a.invoked_at = b.invoked_at

\* dynamodb.put_item on the table of outbound requests.
put_outbound_item(tbl, item) ==
    {i \in tbl : ~SameOutboundKey(i, item)} \cup {item}

\* AWSOutboundRequestTable.store_request; client_error: the backend answers
\* put_item with a ClientError.
store_request(tbl, outbound_context, trace_context, client_error) ==
    IF outbound_context.identifier = <<>>
    THEN [table |-> tbl, result |-> Raise("RuntimeError", "identifier"),
          backend |-> <<>>]
    ELSE IF outbound_context.invoked_at = None
    THEN [table |-> tbl, result |-> Raise("AttributeError", "isoformat"),
          backend |-> <<>>]
    ELSE IF trace_context = None
    THEN [table |-> tbl, result |-> Raise("AttributeError", "trace_id"),
          backend |-> <<>>]
    ELSE IF "invocation_id" \notin DOMAIN trace_context
    THEN [table |-> tbl, result |-> Raise("AttributeError", "invocation_id"),
          backend |-> <<>>]
    ELSE LET item == [identifier_key |->
                          make_identifier_key(outbound_context.identifier),
                      invoked_at |-> isoformat(outbound_context.invoked_at),
                      trace_id |-> StrOf(trace_context.trace_id),
                      record_id |-> StrOf(trace_context.invocation_id)]
         IN  IF client_error
             THEN [table |-> tbl, result |-> Return(None),
                   backend |-> <<[op |-> "put_item", item |-> item]>>]
             ELSE [table |-> put_outbound_item(tbl, item),
                   result |-> Return(None),
                   backend |-> <<[op |-> "put_item", item |-> item]>>]

\* AWSOutboundRequestTable.find_request: the items of the response are
\* printed and nothing is returned; a ClientError of the query is not caught.
find_request(tbl, inbound_context, client_error) ==
    IF inbound_context.identifier = <<>>
    THEN [result |-> Raise("RuntimeError", "identifier"), backend |-> <<>>]
    ELSE IF client_error
    THEN [result |-> Raise("ClientError", "query"),
          backend |-> <<[op |-> "query"]>>]
    ELSE [result |-> Return(None), backend |-> <<[op |-> "query"]>>]

\* {"b": "a", "4": ""}: two entries whose order by key and by value differ.
Id_b4 == << <<Str_b, Str_a>>, <<Str_4, Str_empty>> >>

T1I1 == InvocationContext(PyUUID("T1"), PyUUID("R1"))
T2I2 == InvocationContext(PyUUID("T2"), PyUUID("R2"))

\* Arguments of store_request: two identifiers at two timestamps under
\* either context; calls the backend fails; and one call for each raise
\* before the put.
StoreArgs ==
    {[request_context |-> RequestContext(id, at), trace_context |-> tc,
      client_error |-> FALSE] :
        id \in {Id_ba, Id_b4}, at \in {FirstTime, PyTime(59000000)},
        tc \in {T1I1, T2I2}}
    \cup
    {[request_context |-> RequestContext(Id_ba, FirstTime),
      trace_context |-> tc, client_error |-> TRUE] : tc \in {T1I1, T2I2}}
    \cup
    {[request_context |-> RequestContext(id, at), trace_context |-> tc,
      client_error |-> FALSE] :
        <<id, at, tc>> \in {<<Id_empty, FirstTime, T1I1>>,
                            <<Id_ba, None, T1I1>>,
                            <<Id_ba, FirstTime, None>>,
                            <<Id_ba, FirstTime, T1R1>>}}

FindRequestArgs ==
    {[request_context |-> RequestContext(id, at), client_error |-> ce] :
        id \in {Id_ba, Id_b4, Id_empty}, at \in {FirstTime}, ce \in BOOLEAN}

StoreRequest ==
    \E a \in StoreArgs :
        LET after == store_request(table, a.request_context, a.trace_context,
                                   a.client_error)
        IN  /\ Cardinality(after.table) <= MaxItems
            /\ table' = after.table
            /\ result' = after.result
            /\ backend' = after.backend
            /\ call' = [op |-> "store_request", args |-> a,
                        again |-> Again("store_request", a)]
            /\ UNCHANGED <<trace_vars, process_vars, storage_vars>>

FindRequest ==
    \E a \in FindRequestArgs :
        LET after == find_request(table, a.request_context, a.client_error)
        IN  /\ result' = after.result
            /\ backend' = after.backend
            /\ call' = [op |-> "find_request", args |-> a,
                        again |-> Again("find_request", a)]
            /\ UNCHANGED table
            /\ UNCHANGED <<trace_vars, process_vars, storage_vars>>

NextOutbound == StoreRequest \/ FindRequest

SpecOutbound == Init /\ [][NextOutbound]_vars

\* The calls that write to or query a backend table.
BackendCalls ==
    RecordCalls \cup {"store_request",
                      "find_tracing_context_by_inbound_context",
                      "find_tracing_context_by_outbound_request"}

\* C18: a put or a query that the backend fails is the one request its call
\* sends, and the call raises the table's error: it does not return.
C18_BackendFailureSurfaces ==
    (/\ call.op \in BackendCalls
     /\ call.args.client_error
     /\ backend # <<>>) =>
        /\ Len(backend) = 1
        /\ ~result.ok
        /\ result.exc = "RequestTableError"

\* C19: make_record of a context whose identifier is empty builds no record:
\* it raises InvalidContextException, for either record type and whatever
\* the timestamp and the tracing context are.
C19_OnlyResolvable ==
    (Ran /\ call.request_context.identifier = <<>>) =>
        ~result.ok /\ result.exc = "InvalidContextException"

\* C20: the record an inbound find selects lies in a window around
\* invoked_at that is bounded on both sides: at most 1000 microseconds after
\* it, the tolerance, and no more than a hundred times the tolerance before
\* it.
C20_BoundedWindow ==
    (FoundByInbound /\ result.item # None) =>
        /\ TimeOf(result.item) <= call.args.request_context.invoked_at.v + 1000
        /\ TimeOf(result.item) >=
              call.args.request_context.invoked_at.v - 100 * 1000

(***************************************************************************)
(* Functions of one call: RequestTable.factory and                         *)
(* TracingContext.to_injectable.  The call is drawn in the initial state   *)
(* and one action applies the function it names.                           *)
(***************************************************************************)
\* constants.Provider: the members of the enumeration.
Provider == {"UNIDENTIFIED", "AWS", "GCP", "AZURE", "INTERNAL"}

\* A factory that knows a table for every cloud provider with a store.
factory_for_clouds(provider) ==
    IF provider \in {"AWS", "GCP"}
    THEN Return("AWSRequestTable")
    ELSE Return("NoopRequestTable")

\* RequestTable.factory: the class it returns.
RequestTable_factory(provider) ==
    IF provider = "AWS"
    THEN Return("AWSRequestTable")
    ELSE Return("NoopRequestTable")

\* models.TracingContext with its optional parent_id.
TracingContextOf(trace_id, record_id, parent_id) ==
    [trace_id |-> trace_id, record_id |-> record_id, parent_id |-> parent_id]

TRACE_ID_HEADER == "FaaS-Profiler-Trace-ID"
RECORD_ID_HEADER == "FaaS-Profiler-Record-ID"
PARENT_ID_HEADER == "FaaS-Profiler-Parent-ID"

\* Truth value of an object in a condition: None, the empty string and zero
\* are false, a UUID and a datetime are always true.
truthy(x) ==
    CASE x.t = "none" -> FALSE
      [] x.t = "str" -> x.v # <<>>
      [] x.t = "int" -> x.v # 0
      [] OTHER -> TRUE

\* ctx[header] = str(id), when the id is true.
set_header(ctx, header, id) ==
    IF truthy(id) THEN Append(ctx, <<header, PyStr(str(id))>>) ELSE ctx

\* A to_injectable that writes all three headers.
to_injectable_unconditional(self) ==
    << <<TRACE_ID_HEADER, PyStr(str(self.trace_id))>>,
       <<RECORD_ID_HEADER, PyStr(str(self.record_id))>>,
       <<PARENT_ID_HEADER, PyStr(str(self.parent_id))>> >>

\* TracingContext.to_injectable: the dict it returns, in insertion order.
TracingContext_to_injectable(self) ==
    set_header(set_header(set_header(<<>>, TRACE_ID_HEADER, self.trace_id),
                          RECORD_ID_HEADER, self.record_id),
               PARENT_ID_HEADER, self.parent_id)

\* The ids a tracing context holds: None or a UUID, the nil UUID included.
NilUUID == PyUUID("00000000-0000-0000-0000-000000000000")
Ids == {None, PyUUID("T1"), PyUUID("R1"), NilUUID}

FactoryCalls == {[op |-> "factory", provider |-> p] : p \in Provider}

InjectableCalls ==
    {[op |-> "to_injectable", self |-> TracingContextOf(t, r, p)] :
        t \in Ids, r \in Ids, p \in Ids}

\* An identifier with the empty string for a key.
Id_emptykey == << <<Str_empty, Str_a>> >>

\* The identifier of a record dumped and loaded again.
RoundTripCalls ==
    {[op |-> "round_trip", record_type |-> rt, identifier |-> id] :
        rt \in RecordType, id \in Identifiers \cup {Id_emptykey}}

IdentifierKeyCalls ==
    {[op |-> "make_identifier_key", identifier |-> id] : id \in Identifiers}

FunctionCalls ==
    FactoryCalls \cup InjectableCalls \cup RoundTripCalls
        \cup IdentifierKeyCalls

InitFunctions ==
    /\ table = {}
    /\ backend = <<>>
    /\ call \in FunctionCalls
    /\ result = Pending
    /\ NoTraces /\ NoProcesses /\ NoStorage

Factory ==
    /\ call.op = "factory"
    /\ result = Pending
    /\ result' = RequestTable_factory(call.provider)
    /\ UNCHANGED <<table, call, backend>>
    /\ UNCHANGED <<trace_vars, process_vars, storage_vars>>

ToInjectable ==
    /\ call.op = "to_injectable"
    /\ result = Pending
    /\ result' = Return(TracingContext_to_injectable(call.self))
    /\ UNCHANGED <<table, call, backend>>
    /\ UNCHANGED <<trace_vars, process_vars, storage_vars>>

\* IdentifierField._deserialize of what IdentifierField._serialize returned.
round_trip(value, record_type) ==
    IF IdentifierField_serialize(value, record_type).ok
    THEN IdentifierField_deserialize(
            IdentifierField_serialize(value, record_type).value)
    ELSE IdentifierField_serialize(value, record_type)

RoundTrip ==
    /\ call.op = "round_trip"
    /\ result = Pending
    /\ result' = round_trip(call.identifier, call.record_type)
    /\ UNCHANGED <<table, call, backend>>
    /\ UNCHANGED <<trace_vars, process_vars, storage_vars>>

MakeIdentifierKey ==
    /\ call.op = "make_identifier_key"
    /\ result = Pending
    /\ result' = Return(make_identifier_key(call.identifier))
    /\ UNCHANGED <<table, call, backend>>
    /\ UNCHANGED <<trace_vars, process_vars, storage_vars>>

NextFunctions == Factory \/ ToInjectable \/ RoundTrip \/ MakeIdentifierKey

SpecFunctions == InitFunctions /\ [][NextFunctions]_vars

\* C21: RequestTable.factory returns AWSRequestTable for Provider.AWS and
\* NoopRequestTable for every other member of Provider, and it never raises.
C21_BackendSelection ==
    (call.op = "factory" /\ result # Pending) =>
        /\ result.ok
        /\ result.value = IF call.provider = "AWS" THEN "AWSRequestTable"
                          ELSE "NoopRequestTable"

C21_Witness ==
    /\ call.op = "factory"
    /\ call.provider = "GCP"
    /\ result = Return("NoopRequestTable")

\* The position of a key in a returned dict, 0 when the dict has no such key.
HeaderOf(ctx, header) ==
    IF \E i \in 1..Len(ctx) : ctx[i][1] = header
    THEN (CHOOSE i \in 1..Len(ctx) : ctx[i][1] = header)
    ELSE 0

\* C22: to_injectable returns a mapping that holds each of the three headers
\* exactly when the id it carries is set, with the string form of that id as
\* its value, and holds nothing else: no key twice and no other key.
C22_InjectableHeaders ==
    (call.op = "to_injectable" /\ result # Pending) =>
        LET ctx == result.value
            Carries(header, id) ==
                IF id = None
                THEN HeaderOf(ctx, header) = 0
                ELSE /\ HeaderOf(ctx, header) # 0
                     /\ ctx[HeaderOf(ctx, header)][2] = PyStr(id.v)
        IN  /\ result.ok
            /\ Carries(TRACE_ID_HEADER, call.self.trace_id)
            /\ Carries(RECORD_ID_HEADER, call.self.record_id)
            /\ Carries(PARENT_ID_HEADER, call.self.parent_id)
            /\ \A i, j \in 1..Len(ctx) : ctx[i][1] = ctx[j][1] => i = j
            /\ \A i \in 1..Len(ctx) :
                  ctx[i][1] \in {TRACE_ID_HEADER, RECORD_ID_HEADER,
                                 PARENT_ID_HEADER}

C22_Witness ==
    /\ call.op = "to_injectable"
    /\ call.self = TracingContextOf(PyUUID("T1"), NilUUID, None)
    /\ result = Return(<< <<TRACE_ID_HEADER, PyStr("T1")>>,
                          <<RECORD_ID_HEADER, PyStr(NilUUID.v)>> >>)

(***************************************************************************)
(* models.Trace: records are objects on the heap, a trace holds references *)
(* to them, and add_record writes to the record it is handed.              *)
(***************************************************************************)
\* Most UUIDs uuid4() hands out.
MaxFresh == 2

\* datetime.max and datetime.min, the defaults of Trace.
datetime_max == PyTime(2147483647)
datetime_min == PyTime(0)

min(a, b) == IF b.v < a.v THEN b ELSE a
max(a, b) == IF b.v > a.v THEN b ELSE a

\* models.FunctionContext, the two fields add_record reads.
FunctionContext(invoked_at, finished_at) ==
    [invoked_at |-> invoked_at, finished_at |-> finished_at]

\* models.TraceRecord, the two fields add_record reads.
TraceRecord(tracing_context, function_context) ==
    [tracing_context |-> tracing_context,
     function_context |-> function_context]

\* Trace(trace_id): a trace as constructed, records a dict of references.
Trace(trace_id) ==
    [trace_id |-> trace_id, records |-> <<>>, root_record_id |-> None,
     invoked_at |-> datetime_max, finished_at |-> datetime_min]

\* d[key] = value on a dict held as a function.
setitem(d, key, value) ==
    [k \in DOMAIN d \cup {key} |-> IF k = key THEN value ELSE d[k]]

\* The tracing context of the record after add_record: the one it has, its
\* trace_id overwritten, or a new one with a record_id of uuid4().
tracing_context_added(self, record, fresh) ==
    IF record.tracing_context # None
    THEN [record.tracing_context EXCEPT !.trace_id = self.trace_id]
    ELSE TracingContextOf(self.trace_id, fresh, None)

\* Trace.add_record of the record behind ref: the heap and the trace after it.
add_record(objects, self, ref, fresh) ==
    LET func_ctx == objects[ref].function_context
        added == [objects[ref] EXCEPT
                    !.tracing_context =
                        tracing_context_added(self, objects[ref], fresh)]
    IN  [heap |-> [objects EXCEPT ![ref] = added],
         self |-> [self EXCEPT
            !.invoked_at =
                IF func_ctx # None /\ truthy(func_ctx.invoked_at)
                THEN min(self.invoked_at, func_ctx.invoked_at) ELSE @,
            !.finished_at =
                IF func_ctx # None /\ truthy(func_ctx.finished_at)
                THEN max(self.finished_at, func_ctx.finished_at) ELSE @,
            !.records = setitem(@, added.tracing_context.record_id, ref)]]

\* The UUIDs uuid4() returns, each at most once.
UUID4Names == <<"U1", "U2", "U3">>
UUID4 == {PyUUID(UUID4Names[i]) : i \in 1..MaxFresh}

\* The record ids in use on the heap.
UsedIds ==
    {heap[r].tracing_context.record_id :
        r \in {x \in DOMAIN heap : heap[x].tracing_context # None}}

Refs == {"r1", "r2"}
TraceNames == {"A", "B"}

\* The records handed to add_record: without a tracing context, with the
\* context of either trace, with and without a function context.
TraceRecords ==
    {TraceRecord(tc, fc) :
        tc \in {None,
                TracingContextOf(PyUUID("T1"), PyUUID("R1"), None),
                TracingContextOf(PyUUID("T2"), PyUUID("R1"), None),
                TracingContextOf(PyUUID("T2"), PyUUID("R2"), PyUUID("R1"))},
        fc \in {None, FunctionContext(PyTime(58999000), PyTime(59000000))}}

InitTrace ==
    /\ heap \in [Refs -> TraceRecords]
    /\ traces = [n \in TraceNames |->
                    Trace(IF n = "A" THEN PyUUID("T1") ELSE PyUUID("T2"))]
    /\ table = {} /\ call = NoCall /\ result = Return(None) /\ backend = <<>>
    /\ NoProcesses /\ NoStorage

AddRecord ==
    \E n \in TraceNames, ref \in Refs :
        \E fresh \in IF heap[ref].tracing_context = None
                     THEN UUID4 \ UsedIds ELSE {None} :
            LET after == add_record(heap, traces[n], ref, fresh)
            IN  /\ heap' = after.heap
                /\ traces' = [traces EXCEPT ![n] = after.self]
                /\ UNCHANGED <<request_vars, process_vars, storage_vars>>

NextTrace == AddRecord

SpecTrace == InitTrace /\ [][NextTrace]_vars

\* A record of a trace carries the trace's id and sits under its own record id.
Member(n, key) ==
    LET record == heap[traces[n].records[key]]
    IN  /\ record.tracing_context # None
        /\ record.tracing_context.trace_id = traces[n].trace_id
        /\ record.tracing_context.record_id = key

\* C23: after any sequence of add_record calls, every record in the records
\* of a trace has the trace_id of that trace in its tracing context and is
\* stored under its own record_id.
C23_TraceMembership ==
    \A n \in TraceNames : \A key \in DOMAIN traces[n].records : Member(n, key)

\* C24: for either record type and every identifier _serialize accepts, the
\* empty one and those with empty keys or values included, _deserialize of
\* the serialized string does not raise, sets record_type to the type the
\* string starts with and returns the identifier with its keys and values
\* as strings.
C24_IdentifierRoundTrip ==
    (/\ call.op = "round_trip"
     /\ result # Pending
     /\ IdentifierField_serialize(call.identifier, call.record_type).ok) =>
        /\ result.ok
        /\ result.value.record_type = call.record_type
        /\ SortedByKey(result.value.identifier) =
              SortedByKey(StrDict(call.identifier))

\* C25: outbound.make_identifier_key returns the same key for every
\* insertion order of the identifier's items, also when several keys have
\* one value, and the key lists the "key#value" pairs in ascending order of
\* the keys.
C25_LegacyKeyDeterminism ==
    (call.op = "make_identifier_key" /\ result # Pending) =>
        LET by_key == SortedByKey(StrDict(call.identifier))
        IN  /\ \A p \in PermsOf(call.identifier) :
                  make_identifier_key(p) = result.value
            /\ result.value =
                  join(IDENTIFIER_DELIMITER,
                       [i \in 1..Len(by_key) |->
                           by_key[i][1].v \o KEY_VALUE_DELIMITER
                               \o by_key[i][2].v])

\* The two resolutions of the request table.
Finds ==
    {"find_tracing_context_by_inbound_context",
     "find_tracing_context_by_outbound_request"}

\* C26: a find leaves the items of the table as they are, whatever its
\* outcome (match, miss, a record that does not deserialize, a failing
\* backend); what a find returns depends on the table and its arguments
\* alone, so the finds in between do not change what a later find returns.
C26_ResolutionReadOnly ==
    [][call'.op \in Finds => table' = table]_vars

C26_Witness ==
    /\ FoundByInbound
    /\ call.again
    /\ result.ok
    /\ result.item \in table
    /\ Cardinality(table) = 2

(***************************************************************************)
(* Invocations that use one table at the same time.  Each call is a        *)
(* sequence of steps: a record call builds its item and then sends one     *)
(* put_item, a find sends one query and then works on the response.  The   *)
(* table changes in the put_item and is read in the query, each a single   *)
(* request DynamoDB serves as a whole; every other step is local to the    *)
(* invocation.                                                             *)
(***************************************************************************)
Writers == {"w1", "w2"}
Resolvers == {"f"}

\* What the two record_outbound_request calls are handed: w1 and w2 differ
\* in their tracing contexts and may agree on identifier and invoked_at.
WriterArgs ==
    [w1 |-> {a \in RecordArgs :
                /\ a.trace_context = T1R1
                /\ a.request_context.identifier \in {Id_ba, Id_empty}
                /\ a.request_context.invoked_at \in {FirstTime, PyTime(59000000)}},
     w2 |-> {a \in RecordArgs :
                /\ a.trace_context = T2R2
                /\ a.request_context.invoked_at \in {FirstTime, PyTime(59000000)}}]

ResolverArgs ==
    {a \in FindArgs : a.request_context.invoked_at \in {FirstTime, PyTime(59000000)}}

InitConcurrent ==
    /\ table = {}
    /\ procs \in
          {[p \in Writers \cup Resolvers |->
              IF p \in Writers
              THEN [op |-> "record_outbound_request", args |-> w[p],
                    pc |-> "make_record", item |-> None, result |-> Pending]
              ELSE [op |-> "find_tracing_context_by_inbound_context",
                    args |-> f, pc |-> "query", response |-> None,
                    seen |-> {}, committed |-> {}, result |-> Pending]] :
            w \in [Writers -> RecordArgs], f \in ResolverArgs}
    /\ \A p \in Writers : procs[p].args \in WriterArgs[p]
    /\ call = NoCall /\ result = Return(None) /\ backend = <<>>
    /\ NoTraces /\ NoStorage

\* record = make_record(...); item = self._serialize(record)
BuildItem(p) ==
    /\ p \in Writers
    /\ procs[p].pc = "make_record"
    /\ LET record == MadeRecords[OUTBOUND][procs[p].args]
       IN  procs' = [procs EXCEPT ![p] =
                IF record.ok
                THEN [@ EXCEPT !.pc = "put_item",
                               !.item = record_item(record.value, procs[p].op)]
                ELSE [@ EXCEPT !.pc = "done", !.result = record]]
    /\ UNCHANGED <<table, call, result, backend>>
    /\ UNCHANGED <<trace_vars, storage_vars>>

\* self.dynamodb.put_item(TableName=self.table_name, Item=item) and what
\* follows it.
PutItem(p) ==
    /\ p \in Writers
    /\ procs[p].pc = "put_item"
    /\ LET after == put_built(table, procs[p].item, procs[p].args.client_error)
       IN  /\ table' = after.table
           /\ procs' = [procs EXCEPT ![p] =
                            [@ EXCEPT !.pc = "done", !.result = after.result]]
    /\ UNCHANGED <<call, result, backend>>
    /\ UNCHANGED <<trace_vars, storage_vars>>

\* response = self.dynamodb.query(...) of the find by inbound context: the
\* items of the response, or the ClientError.
query_by_inbound(tbl, inbound_context, client_error) ==
    IF client_error THEN [error |-> TRUE, Items |-> <<>>]
    ELSE [error |-> FALSE,
          Items |-> query_le(tbl,
                             make_identifier_string(OUTBOUND,
                                                    inbound_context.identifier),
                             isoformat(inbound_upper_bound(inbound_context)))]

\* The writers whose put has been answered.
Committed == {w \in Writers : procs[w].pc = "done" /\ procs[w].result.ok}

\* The query of the find; seen and committed keep the table and the
\* finished puts of this instant.
Query(p) ==
    /\ p \in Resolvers
    /\ procs[p].pc = "query"
    /\ procs' = [procs EXCEPT ![p] =
            [@ EXCEPT !.pc = "response",
                      !.response = query_by_inbound(table,
                                        procs[p].args.request_context,
                                        procs[p].args.client_error),
                      !.seen = table,
                      !.committed = Committed]]
    /\ UNCHANGED <<table, call, result, backend>>
    /\ UNCHANGED <<trace_vars, storage_vars>>

\* What the find does with the response: raise on the ClientError, take
\* Items[0] and load it.
TakeFirst(p) ==
    /\ p \in Resolvers
    /\ procs[p].pc = "response"
    /\ procs' = [procs EXCEPT ![p] =
            [@ EXCEPT !.pc = "done",
                      !.result =
                          IF procs[p].response.error
                          THEN Failed("RequestTableError", "query", None)
                          ELSE first_item(procs[p].response.Items)]]
    /\ UNCHANGED <<table, call, result, backend>>
    /\ UNCHANGED <<trace_vars, storage_vars>>

NextConcurrent ==
    \E p \in Writers \cup Resolvers :
        BuildItem(p) \/ PutItem(p) \/ Query(p) \/ TakeFirst(p)

SpecConcurrent == InitConcurrent /\ [][NextConcurrent]_vars

\* Both writers were handed one identifier and one invoked_at.
SameRequest ==
    procs["w1"].args.request_context = procs["w2"].args.request_context

\* C27: two record_outbound_request calls with one identifier, one
\* invoked_at and two tracing contexts, running at the same time: once both
\* are done the table holds exactly one record under their key, and at every
\* instant each record under the key, and each pair a find returns, has the
\* trace_id and the record_id of one and the same call.
C27_AtomicRecords ==
    SameRequest =>
        /\ Committed = Writers =>
              Cardinality({i \in table : SameKey(i, procs["w1"].item)}) = 1
        /\ \A i \in table :
              \E w \in Writers :
                  /\ PyUUID(i.trace_id) = procs[w].args.trace_context.trace_id
                  /\ PyUUID(i.record_id) = procs[w].args.trace_context.record_id
        /\ \A f \in Resolvers :
              (procs[f].pc = "done" /\ procs[f].result.ok) =>
                  \E w \in Writers :
                      procs[f].result.value = procs[w].args.trace_context

C27_Witness ==
    /\ SameRequest
    /\ Committed = Writers
    /\ procs["f"].pc = "done"
    /\ procs["f"].committed = {"w1"}
    /\ procs["f"].result.ok
    /\ procs["f"].result.value = T1R1
    /\ \E i \in table : i.trace_id = "T2"

\* The find of resolver f when it is done, against the instant of its query.
\* Determined: it is what the find gives on the table of that instant.
Determined(f) ==
    procs[f].result =
        find_tracing_context_by_inbound_context(
            procs[f].seen, procs[f].args.request_context,
            procs[f].args.client_error)

\* A put not answered by that instant is not found, and with no put
\* answered the find is a miss.
MissesUncommitted(f) ==
    /\ \A w \in Writers \ procs[f].committed :
          procs[f].result.item = None
              \/ procs[f].result.item # procs[w].item
    /\ procs[f].committed = {} =>
          ~procs[f].result.ok /\ procs[f].result.item = None

\* A put answered by that instant, for the identifier of the find and with
\* invoked_at at most the tolerance after the find's, is found.
FindsCommitted(f) ==
    \A w \in procs[f].committed :
        (/\ ~procs[f].args.client_error
         /\ procs[w].args.request_context.identifier =
               procs[f].args.request_context.identifier
         /\ procs[w].args.request_context.invoked_at.v <=
               procs[f].args.request_context.invoked_at.v + 1000) =>
            /\ procs[f].result.ok
            /\ procs[f].result.value = procs[w].args.trace_context

\* C28: what a find by inbound context returns is fixed by the table at the
\* instant of its one query and by its context, and stays so when a put is
\* answered later; a record_outbound_request whose put is not answered at
\* that instant is missed whatever the timestamps, and one whose put is
\* answered and whose invoked_at lies within the window is found.
C28_PutQueryRace ==
    \A f \in Resolvers :
        procs[f].pc = "done" =>
            Determined(f) /\ MissesUncommitted(f) /\ FindsCommitted(f)

(***************************************************************************)
(* storage.RecordStorage: the unprocessed and the processed records of a   *)
(* bucket, with S3RecordStorage and GCPRecordStorage.  The bucket is the   *)
(* sequence of its blobs in the order of their last modification; a key    *)
(* is <<prefix, record id, ".json">>.                                      *)
(***************************************************************************)
\* Most blobs the bucket is let to hold.
MaxBlobs == 3

UNPROCESSED_RECORDS_PREFIX == "unprocessed_records/"
PROCESSED_RECORDS_PREFIX == "records/"

\* UNPROCESSED_RECORDS_FORMAT.format(record_id=...)
UNPROCESSED_RECORDS_FORMAT(record_id) ==
    <<UNPROCESSED_RECORDS_PREFIX, str(record_id), ".json">>
\* PROCESSED_RECORDS_FORMAT.format(record_id=...)
PROCESSED_RECORDS_FORMAT(record_id) ==
    <<PROCESSED_RECORDS_PREFIX, str(record_id), ".json">>

KeysOf(bkt) == {bkt[i].Key : i \in 1..Len(bkt)}
BodyOf(bkt, key) == bkt[CHOOSE i \in 1..Len(bkt) : bkt[i].Key = key].Body

\* client.put_object / blob.upload_from_string: the blob is written anew.
put_object(bkt, key, body) ==
    Append(SelectSeq(bkt, LAMBDA b : b.Key # key), [Key |-> key, Body |-> body])
\* client.copy_object / bucket.copy_blob of a blob the bucket holds.
copy_object(bkt, source, key) == put_object(bkt, key, BodyOf(bkt, source))
\* client.delete_object / bucket.delete_blob
delete_object(bkt, key) == SelectSeq(bkt, LAMBDA b : b.Key # key)

\* _list_objects_with_paginator(prefix), sorted by LastModified.
list_objects_by_last_modified(bkt, prefix) ==
    LET objects == SelectSeq(bkt, LAMBDA b : b.Key[1] = prefix)
    IN  [i \in 1..Len(objects) |-> objects[i].Key]

\* client.list_blobs(bucket_name, prefix=prefix, delimiter="/"): the names
\* in their lexicographic order.
BlobNames == <<"R1", "R2", "U1", "U2", "U3">>
list_blobs(bkt, prefix) ==
    LET names == SelectSeq(BlobNames,
                           LAMBDA n : <<prefix, n, ".json">> \in KeysOf(bkt))
    IN  [i \in 1..Len(names) |-> <<prefix, names[i], ".json">>]

\* A Python list.
PyList(l) == [t |-> "list", v |-> l]

\* The storage objects as constructed.
S3RecordStorage ==
    [class |-> "S3RecordStorage", unprocessed_record_keys |-> None]
GCPRecordStorage ==
    [class |-> "GCPRecordStorage", unprocessed_record_keys |-> None]

\* The property unprocessed_record_keys: the list it returns and the object
\* after it.  S3RecordStorage evaluates its cached list and goes on to list
\* the bucket; GCPRecordStorage returns the cached list.
unprocessed_record_keys(self, bkt) ==
    IF self.class = "S3RecordStorage"
    THEN LET keys == list_objects_by_last_modified(
                        bkt, UNPROCESSED_RECORDS_PREFIX)
         IN  [value |-> keys,
              self |-> [self EXCEPT !.unprocessed_record_keys = PyList(keys)]]
    ELSE IF self.unprocessed_record_keys # None
    THEN [value |-> self.unprocessed_record_keys.v, self |-> self]
    ELSE LET keys == list_blobs(bkt, UNPROCESSED_RECORDS_PREFIX)
         IN  [value |-> keys,
              self |-> [self EXCEPT !.unprocessed_record_keys = PyList(keys)]]

\* TraceRecord.load of a stored body: tracing_context and function_context
\* are required.
TraceRecord_load(body) ==
    IF {"tracing_context", "function_context"} \subseteq DOMAIN body
    THEN Return(body)
    ELSE Raise("ValidationError", "Missing data for required field.")

\* list(unprocessed_records()): the records the generator yields, or the
\* exception that ends it.  S3RecordStorage skips a key it cannot get and a
\* body it cannot load; GCPRecordStorage skips only the latter.
RECURSIVE yield_records(_, _, _, _)
yield_records(class, bkt, keys, yielded) ==
    IF keys = <<>> THEN Return(yielded)
    ELSE IF keys[1] \notin KeysOf(bkt)
    THEN IF class = "S3RecordStorage"
         THEN yield_records(class, bkt, Tail(keys), yielded)
         ELSE Raise("NotFound", keys[1])
    ELSE IF TraceRecord_load(BodyOf(bkt, keys[1])).ok
    THEN yield_records(class, bkt, Tail(keys),
                       Append(yielded, BodyOf(bkt, keys[1])))
    ELSE yield_records(class, bkt, Tail(keys), yielded)

\* The key store_unprocessed_record writes: the record_id of the record's
\* tracing_context, a uuid4() when the record has none.
record_key_of(trace_record, fresh) ==
    UNPROCESSED_RECORDS_FORMAT(
        IF "tracing_context" \in DOMAIN trace_record
        THEN trace_record.tracing_context.record_id
        ELSE fresh)

\* A move that deletes the unprocessed blob before it writes the copy.
mark_step_delete_first(bkt, record_id, pc) ==
    delete_object(bkt, UNPROCESSED_RECORDS_FORMAT(record_id))

\* The two requests of mark_record_as_resolved, in their order.
mark_step(bkt, record_id, pc) ==
    IF pc = "copy"
    THEN copy_object(bkt, UNPROCESSED_RECORDS_FORMAT(record_id),
                     PROCESSED_RECORDS_FORMAT(record_id))
    ELSE delete_object(bkt, UNPROCESSED_RECORDS_FORMAT(record_id))

\* The dicts handed to store_unprocessed_record: dumped records of R1 (two
\* of them) and R2, and a dict with no tracing_context.
TraceRecordDicts ==
    {[tracing_context |-> [record_id |-> PyUUID(r)],
      function_context |-> [function_name |-> f]] :
        r \in {"R1", "R2"}, f \in {"f"}}
    \cup {[tracing_context |-> [record_id |-> PyUUID("R1")],
           function_context |-> [function_name |-> "g"]],
          [data |-> "d"]}

\* No mark_record_as_resolved has been called.
Idle == [pc |-> "none"]
InProgress == moving.pc \in {"copy", "delete"}

InitStorage ==
    /\ bucket = <<>>
    /\ storage \in {S3RecordStorage, GCPRecordStorage}
    /\ moving = Idle
    /\ table = {} /\ call = NoCall /\ result = Return(None) /\ backend = <<>>
    /\ NoTraces /\ NoProcesses

StoreUnprocessedRecord ==
    /\ ~InProgress
    /\ \E trace_record \in TraceRecordDicts :
       \E fresh \in IF "tracing_context" \in DOMAIN trace_record THEN {None}
                    ELSE {u \in UUID4 :
                            UNPROCESSED_RECORDS_FORMAT(u) \notin KeysOf(bucket)} :
          /\ bucket' = put_object(bucket, record_key_of(trace_record, fresh),
                                  trace_record)
          /\ Len(bucket') <= MaxBlobs
          /\ call' = [op |-> "store_unprocessed_record", args |-> trace_record]
          /\ result' = Return(None)
    /\ moving' = Idle
    /\ UNCHANGED <<storage, table, backend>>
    /\ UNCHANGED <<trace_vars, process_vars>>

\* mark_record_as_resolved is entered: body is what the bucket holds under
\* the unprocessed key at this instant (None: nothing).
MarkRecordAsResolved ==
    /\ ~InProgress
    /\ \E record_id \in {PyUUID("R1"), PyUUID("R2")} :
          /\ moving' =
                [pc |-> "copy", record_id |-> record_id,
                 body |-> IF UNPROCESSED_RECORDS_FORMAT(record_id) \in KeysOf(bucket)
                          THEN BodyOf(bucket, UNPROCESSED_RECORDS_FORMAT(record_id))
                          ELSE None]
          /\ call' = [op |-> "mark_record_as_resolved", args |-> record_id]
    /\ result' = Pending
    /\ UNCHANGED <<bucket, storage, table, backend>>
    /\ UNCHANGED <<trace_vars, process_vars>>

\* Up to the copy: S3RecordStorage reads unprocessed_record_keys and copies
\* when the key is in the list, returning otherwise; GCPRecordStorage
\* copies, and the copy of a blob that does not exist raises NotFound.
MarkCopy ==
    /\ moving.pc = "copy"
    /\ LET key == UNPROCESSED_RECORDS_FORMAT(moving.record_id)
           keys == unprocessed_record_keys(storage, bucket)
           listed == \E i \in 1..Len(keys.value) : keys.value[i] = key
       IN  IF storage.class = "S3RecordStorage" /\ ~listed
           THEN /\ storage' = keys.self
                /\ moving' = [moving EXCEPT !.pc = "done"]
                /\ result' = Return(None)
                /\ UNCHANGED bucket
           ELSE IF key \notin KeysOf(bucket)
           THEN /\ storage' = IF storage.class = "S3RecordStorage"
                              THEN keys.self ELSE storage
                /\ moving' = [moving EXCEPT !.pc = "failed"]
                /\ result' = Raise("NotFound", key)
                /\ UNCHANGED bucket
           ELSE /\ storage' = IF storage.class = "S3RecordStorage"
                              THEN keys.self ELSE storage
                /\ bucket' = mark_step(bucket, moving.record_id, "copy")
                /\ moving' = [moving EXCEPT !.pc = "delete"]
                /\ UNCHANGED result
    /\ UNCHANGED <<call, table, backend>>
    /\ UNCHANGED <<trace_vars, process_vars>>

MarkDelete ==
    /\ moving.pc = "delete"
    /\ bucket' = mark_step(bucket, moving.record_id, "delete")
    /\ moving' = [moving EXCEPT !.pc = "done"]
    /\ result' = Return(None)
    /\ UNCHANGED <<storage, call, table, backend>>
    /\ UNCHANGED <<trace_vars, process_vars>>

\* The request the call is about to send fails, or the invocation ends
\* before it sends it.
MarkFails ==
    /\ InProgress
    /\ moving' = [moving EXCEPT !.pc = "failed"]
    /\ result' = Raise("ClientError", moving.pc)
    /\ UNCHANGED <<bucket, storage, call, table, backend>>
    /\ UNCHANGED <<trace_vars, process_vars>>

UnprocessedRecordKeys ==
    /\ ~InProgress
    /\ result' = Return(unprocessed_record_keys(storage, bucket).value)
    /\ storage' = unprocessed_record_keys(storage, bucket).self
    /\ call' = [op |-> "unprocessed_record_keys", args |-> <<>>]
    /\ UNCHANGED <<bucket, moving, table, backend>>
    /\ UNCHANGED <<trace_vars, process_vars>>

\* return len(self.unprocessed_record_keys)
NumberOfUnprocessedRecords ==
    /\ ~InProgress
    /\ result' = Return(Len(unprocessed_record_keys(storage, bucket).value))
    /\ storage' = unprocessed_record_keys(storage, bucket).self
    /\ call' = [op |-> "number_of_unprocessed_records", args |-> <<>>]
    /\ UNCHANGED <<bucket, moving, table, backend>>
    /\ UNCHANGED <<trace_vars, process_vars>>

UnprocessedRecords ==
    /\ ~InProgress
    /\ result' = yield_records(storage.class, bucket,
                               unprocessed_record_keys(storage, bucket).value,
                               <<>>)
    /\ storage' = unprocessed_record_keys(storage, bucket).self
    /\ call' = [op |-> "unprocessed_records", args |-> <<>>]
    /\ UNCHANGED <<bucket, moving, table, backend>>
    /\ UNCHANGED <<trace_vars, process_vars>>

NextStorage ==
    \/ StoreUnprocessedRecord
    \/ MarkRecordAsResolved \/ MarkCopy \/ MarkDelete \/ MarkFails
    \/ UnprocessedRecordKeys \/ NumberOfUnprocessedRecords
    \/ UnprocessedRecords

SpecStorage == InitStorage /\ [][NextStorage]_vars

\* The bucket holds the body under the key.
HoldsBody(key, body) == key \in KeysOf(bucket) /\ BodyOf(bucket, key) = body

\* C29: from the entry of mark_record_as_resolved for a record that is
\* under unprocessed_records/ to its end, the bucket holds the record's
\* content under the unprocessed key or under the records/ key, also when
\* the call fails between its two requests; when it returns, the content is
\* under the records/ key and the unprocessed key is gone.
C29_MoveKeepsRecord ==
    (moving.pc # "none" /\ moving.body # None) =>
        /\ \/ HoldsBody(UNPROCESSED_RECORDS_FORMAT(moving.record_id), moving.body)
           \/ HoldsBody(PROCESSED_RECORDS_FORMAT(moving.record_id), moving.body)
        /\ moving.pc = "done" =>
              /\ HoldsBody(PROCESSED_RECORDS_FORMAT(moving.record_id), moving.body)
              /\ UNPROCESSED_RECORDS_FORMAT(moving.record_id) \notin KeysOf(bucket)

C29_Witness ==
    /\ moving.pc = "failed"
    /\ moving.body # None
    /\ result = Raise("ClientError", "delete")
    /\ HoldsBody(UNPROCESSED_RECORDS_FORMAT(moving.record_id), moving.body)
    /\ HoldsBody(PROCESSED_RECORDS_FORMAT(moving.record_id), moving.body)

\* The keys the bucket holds under unprocessed_records/.
UnprocessedKeys == {k \in KeysOf(bucket) : k[1] = UNPROCESSED_RECORDS_PREFIX}

\* C30: on one storage object, after any calls of store_unprocessed_record
\* and mark_record_as_resolved, unprocessed_record_keys lists exactly the
\* keys under unprocessed_records/, number_of_unprocessed_records is their
\* number and unprocessed_records() yields exactly the records under them;
\* and mark_record_as_resolved of a record that is no longer there (it was
\* resolved before) does not raise.
C30_ListingTracksStore ==
    /\ call.op = "unprocessed_record_keys" =>
          /\ result.ok
          /\ {result.value[i] : i \in 1..Len(result.value)} = UnprocessedKeys
          /\ Len(result.value) = Cardinality(UnprocessedKeys)
    /\ call.op = "number_of_unprocessed_records" =>
          result.ok /\ result.value = Cardinality(UnprocessedKeys)
    /\ call.op = "unprocessed_records" =>
          /\ result.ok
          /\ {result.value[i] : i \in 1..Len(result.value)} =
                {BodyOf(bucket, k) :
                    k \in {u \in UnprocessedKeys :
                              TraceRecord_load(BodyOf(bucket, u)).ok}}
    /\ (/\ call.op = "mark_record_as_resolved"
        /\ moving.pc = "failed"
        /\ moving.body = None
        /\ PROCESSED_RECORDS_FORMAT(moving.record_id) \in KeysOf(bucket)) =>
          result.exc = "ClientError"

====
